---------------------------- MODULE Spec2Model ----------------------------
(***************************************************************************)
(* Model of src/src/crawlers/schedule_crawling.py: the league alias        *)
(* resolution and the OP.GG Valorant fetch, the Naver month flattener, the *)
(* match normalizers and the team field extractors.                        *)
(*                                                                         *)
(* JSON / Python values are tagged records, so that values of different    *)
(* Python types can sit in one set:                                        *)
(*   [t |-> "absent"]            a key that the dict does not carry        *)
(*   [t |-> "null"]              None / JSON null                          *)
(*   [t |-> "str",  v |-> s]     a str                                     *)
(*   [t |-> "iso",  ms, sfx]     a str holding an ISO-8601 timestamp: the  *)
(*                               wall-clock reading in milliseconds since  *)
(*                               1970-01-01T00:00:00 and its offset suffix *)
(*   [t |-> "text", chars |-> c] a str as its sequence of characters       *)
(*   [t |-> "num",  n |-> i]     an int                                    *)
(*   [t |-> "list", items |-> q] a list                                    *)
(*   [t |-> "dict", d |-> f]     a dict: f maps every key of KEYS to its   *)
(*                               value, or to Absent                       *)
(***************************************************************************)
EXTENDS Integers, Sequences, FiniteSets, TLC

VARIABLES
    pc,            \* "idle", "awaiting" (the request is in flight) or "done"
    fn,            \* the function being called
    league_input,  \* fetch_valorant_league_schedule's argument, as characters
    input,         \* the JSON value handed to the function or received
    http_status,   \* response.status
    requests,      \* the requests the call has issued
    log,           \* what the call has printed
    result,        \* what the call returned or raised
    outcomes       \* history: how the failed fetch calls so far have ended

vars == <<pc, fn, league_input, input, http_status, requests, log, result, outcomes>>

---------------------------------------------------------------------------
(* Values *)

Absent == [t |-> "absent"]

None == [t |-> "null"]

Str(s) == [t |-> "str", v |-> s]

Iso(ms, sfx) == [t |-> "iso", ms |-> ms, sfx |-> sfx]

Text(c) == [t |-> "text", chars |-> c]

Num(n) == [t |-> "num", n |-> n]

List(q) == [t |-> "list", items |-> q]

KEYS ==
    { "code", "content", "data", "pagedAllMatches", "matchesBySeries",
      "matches", "matchList", "matchId", "id",
      "startDate", "startTime", "scheduledAt",
      "status", "matchStatus", "leagueName", "league", "blockName", "stageName",
      "homeScore", "team1Score", "score1", "awayScore", "team2Score", "score2",
      "teams", "homeTeam", "awayTeam",
      "team1Name", "homeTeamName", "team2Name", "awayTeamName",
      "teamCode", "nameAcronym", "shortName", "nameEng", "name", "acronym",
      "imageUrl", "colorImageUrl", "whiteImageUrl", "blackImageUrl",
      "imageUrlLightMode", "imageUrlDarkMode", "date" }

\* The dict whose items are the fields of the record (or function) o.
Dict(o) == [t |-> "dict", d |-> [k \in KEYS |-> IF k \in DOMAIN o THEN o[k] ELSE Absent]]

EmptyDict == [t |-> "dict", d |-> [k \in KEYS |-> Absent]]

\* The elements of a sequence.
Range(q) == { q[i] : i \in DOMAIN q }

\* isinstance(v, dict), isinstance(v, list), isinstance(v, str)
IsDict(v) == v.t = "dict"

IsList(v) == v.t = "list"

IsStr(v) == v.t \in {"str", "iso", "text"}

\* k in d
Has(d, k) == d.d[k] # Absent

\* d.get(k) and d.get(k, default)
Get(d, k) == IF Has(d, k) THEN d.d[k] ELSE None

GetDefault(d, k, default) == IF Has(d, k) THEN d.d[k] ELSE default

\* bool(v): None, 0, "", [] and {} are falsy
Truthy(v) ==
    CASE v.t = "null" -> FALSE
      [] v.t = "absent" -> FALSE
      [] v.t = "str" -> v.v # ""
      [] v.t = "text" -> v.chars # <<>>
      [] v.t = "iso" -> TRUE
      [] v.t = "num" -> v.n # 0
      [] v.t = "list" -> v.items # <<>>
      [] v.t = "dict" -> \E k \in KEYS : v.d[k] # Absent

\* a or b
PyOr(a, b) == IF Truthy(a) THEN a ELSE b

\* Outcomes of a call: a returned value or a raised exception.
Return(v) == [kind |-> "return", val |-> v, exc |-> ""]

Raise(e) == [kind |-> "raise", val |-> None, exc |-> e]

NoResult == [kind |-> "none", val |-> None, exc |-> ""]

Raised(r) == r.kind = "raise"

---------------------------------------------------------------------------
(* str.lower() on a str given as its characters *)

UpperLetters ==
    << "A", "B", "C", "D", "E", "F", "G", "H", "I", "J", "K", "L", "M",
       "N", "O", "P", "Q", "R", "S", "T", "U", "V", "W", "X", "Y", "Z" >>

LowerLetters ==
    << "a", "b", "c", "d", "e", "f", "g", "h", "i", "j", "k", "l", "m",
       "n", "o", "p", "q", "r", "s", "t", "u", "v", "w", "x", "y", "z" >>

LowerChar(c) ==
    IF \E i \in DOMAIN UpperLetters : UpperLetters[i] = c
    THEN LowerLetters[CHOOSE i \in DOMAIN UpperLetters : UpperLetters[i] = c]
    ELSE c

UpperChar(c) ==
    IF \E i \in DOMAIN LowerLetters : LowerLetters[i] = c
    THEN UpperLetters[CHOOSE i \in DOMAIN LowerLetters : LowerLetters[i] = c]
    ELSE c

\* s.lower(): Hangul syllables have no case and map to themselves.
Lower(s) == [i \in DOMAIN s |-> LowerChar(s[i])]

---------------------------------------------------------------------------
(* The alias tables.  A character outside ASCII is written by its code     *)
(* point: "U+D37C" is the Hangul syllable at U+D37C.                       *)

K_masters == << "m", "a", "s", "t", "e", "r", "s" >>

K_emea == << "e", "m", "e", "a" >>

K_pacific == << "p", "a", "c", "i", "f", "i", "c" >>

K_americas == << "a", "m", "e", "r", "i", "c", "a", "s" >>

K_na == << "n", "a" >>

K_japan == << "j", "a", "p", "a", "n" >>

K_brazil == << "b", "r", "a", "z", "i", "l" >>

\* alias -> standard key, as the set of its (key, value) items
VALORANT_LEAGUE_ALIAS ==
    { << K_masters, K_masters >>,
      << << "M", "A", "S", "T", "E", "R" >>, K_masters >>,
      << << "U+B9C8", "U+C2A4", "U+D130", "U+C2A4" >>, K_masters >>,
      << K_emea, K_emea >>,
      << << "E", "M", "E", "A" >>, K_emea >>,
      << K_pacific, K_pacific >>,
      << << "P", "A", "C", "I", "F", "I", "C" >>, K_pacific >>,
      << << "U+D37C", "U+C2DC", "U+D53D" >>, K_pacific >>,
      << K_americas, K_americas >>,
      << << "A", "M", "E", "R", "I", "C", "A", "S" >>, K_americas >>,
      << << "U+C544", "U+BA54", "U+B9AC", "U+CE74" >>, K_americas >>,
      << K_na, K_na >>,
      << << "N", "A" >>, K_na >>,
      << K_japan, K_japan >>,
      << << "J", "P" >>, K_japan >>,
      << K_brazil, K_brazil >>,
      << << "B", "R" >>, K_brazil >> }

\* standard key -> series ids, as the set of its (key, value) items
VALORANT_LEAGUE_IDS ==
    { << K_masters, << "608", "581" >> >>,
      << K_emea, << "624", "607", "585", "580", "564" >> >>,
      << K_pacific, << "622", "590", "566" >> >>,
      << K_na, << "601" >> >>,
      << K_americas, << "625", "584", "565" >> >>,
      << K_japan, << "623" >> >>,
      << K_brazil, << "633" >> >> }

\* The keys of a table and table.get(key): None when the key is missing.
TableKeys(table) == { p[1] : p \in table }

TableGet(table, key) ==
    IF key \in TableKeys(table)
    THEN (CHOOSE p \in table : p[1] = key)[2]
    ELSE <<>>

\* VALORANT_LEAGUE_ALIAS.get(league_input.lower()); None is Python's None.
ResolveAlias(s) ==
    IF Lower(s) \in TableKeys(VALORANT_LEAGUE_ALIAS)
    THEN Text(TableGet(VALORANT_LEAGUE_ALIAS, Lower(s)))
    ELSE None

\* VALORANT_LEAGUE_IDS.get(standard_key): the id list, <<>> for None or [].
SerieIds(standard_key) == TableGet(VALORANT_LEAGUE_IDS, standard_key.chars)

---------------------------------------------------------------------------
(* Status and time *)

\* status_map.get(s, s); a list or a dict is unhashable and makes .get raise
Hashable(v) == v.t \notin {"list", "dict"}

\* status_map without its entries: every status passes through.
status_map_NoEntries(s) == s

status_map(s) ==
    CASE s = Str("not_started") -> Str("BEFORE")
      [] s = Str("running") -> Str("STARTED")
      [] s = Str("finished") -> Str("END")
      [] OTHER -> s

\* ZoneInfo("Asia/Seoul") is UTC+9 all year
KSTOffsetHours == 9

HourMs == 60 * 60 * 1000

\* The UTC offset, in hours, that the suffix of an ISO text states.
SfxHours(sfx) ==
    CASE sfx = "Z" -> 0
      [] sfx = "+00:00" -> 0
      [] sfx = "+09:00" -> 9

\* datetime.fromisoformat(text.replace('Z', '+00:00')): the instant, in
\* milliseconds since the epoch
Instant(iso) == iso.ms - SfxHours(iso.sfx) * HourMs

\* utc_time.astimezone(KST).isoformat()
KstIsoformat(instant) == Iso(instant + KSTOffsetHours * HourMs, "+09:00")

\* Python's < on two str holding ISO texts of one layout: the zero-padded
\* date and clock fields compare as the reading does, and where the
\* readings agree the suffixes decide, '+' (0x2B) sorting before 'Z' (0x5A).
SfxRank(sfx) ==
    CASE sfx = "+00:00" -> 1
      [] sfx = "+09:00" -> 2
      [] sfx = "Z" -> 3

KeyLess(a, b) ==
    IF a.t = "num"
    THEN a.n < b.n
    ELSE \/ a.ms < b.ms
         \/ a.ms = b.ms /\ SfxRank(a.sfx) < SfxRank(b.sfx)

\* lambda x: x.get('scheduledAt')
SortKey(x) == Get(x, "scheduledAt")

\* Whether < is defined between the sort keys of q: all str or all int
\* (scheduledAt is drawn from None, int and ISO text).
KeysComparable(q) ==
    \/ \A i \in DOMAIN q : SortKey(q[i]).t = "iso"
    \/ \A i \in DOMAIN q : SortKey(q[i]).t = "num"

\* sorted(q, key=SortKey): stable, ascending
RECURSIVE Sorted(_)
Sorted(q) ==
    IF q = <<>>
    THEN <<>>
    ELSE LET init == Sorted(SubSeq(q, 1, Len(q) - 1))
             x == q[Len(q)]
             k == Cardinality({ i \in DOMAIN init :
                                  ~KeyLess(SortKey(x), SortKey(init[i])) })
         IN  SubSeq(init, 1, k) \o << x >> \o SubSeq(init, k + 1, Len(init))

---------------------------------------------------------------------------
(* fetch_valorant_league_schedule *)

\* The first exception that building valorant_match from m raises, "" if none
ValorantMatchExc(m) ==
    IF ~IsStr(Get(m, "scheduledAt")) THEN "AttributeError"
    ELSE IF ~Hashable(Get(m, "status")) THEN "TypeError"
    ELSE IF ~IsDict(GetDefault(m, "homeTeam", EmptyDict)) THEN "AttributeError"
    ELSE IF ~IsDict(GetDefault(m, "awayTeam", EmptyDict)) THEN "AttributeError"
    ELSE ""

ValorantMatch(m) ==
    [ matchId |-> Get(m, "id"),
      startDate |-> KstIsoformat(Instant(Get(m, "scheduledAt"))),
      status |-> status_map(Get(m, "status")),
      leagueName |-> None,
      blockName |-> None,
      team1 |-> Get(GetDefault(m, "homeTeam", EmptyDict), "name"),
      team2 |-> Get(GetDefault(m, "awayTeam", EmptyDict), "name"),
      team1Img |-> Get(GetDefault(m, "homeTeam", EmptyDict), "imageUrl"),
      team2Img |-> Get(GetDefault(m, "awayTeam", EmptyDict), "imageUrl"),
      score1 |-> Get(m, "homeScore"),
      score2 |-> Get(m, "awayScore") ]

\* The body of `if response.status == 200:` on the decoded JSON `data`
ValorantParse(data) ==
    IF ~IsDict(data) THEN Raise("AttributeError")
    ELSE IF ~IsDict(GetDefault(data, "data", EmptyDict)) THEN Raise("AttributeError")
    ELSE LET matches == Get(GetDefault(data, "data", EmptyDict), "matchesBySeries") IN
         IF ~Truthy(matches) THEN Return(None)
         ELSE IF matches.t = "num" THEN Raise("TypeError")
         ELSE IF ~IsList(matches) THEN Raise("AttributeError")
         ELSE IF \E i \in DOMAIN matches.items : ~IsDict(matches.items[i])
              THEN Raise("AttributeError")
         ELSE IF Len(matches.items) >= 2 /\ ~KeysComparable(matches.items)
              THEN Raise("TypeError")
         ELSE LET sorted_matches == Sorted(matches.items)
                  bad == { i \in DOMAIN sorted_matches :
                             ValorantMatchExc(sorted_matches[i]) # "" }
              IN  IF bad # {}
                  THEN Raise(ValorantMatchExc(
                           sorted_matches[CHOOSE i \in bad : \A j \in bad : i <= j]))
                  ELSE Return(List([ i \in DOMAIN sorted_matches |->
                                       ValorantMatch(sorted_matches[i]) ]))

\* What a finished call leaves for the comparison of runs: how it ended,
\* what it returned and what it printed.
Outcome(how, r, printed) == [how |-> how, result |-> r, log |-> printed]

\* FetchValorantCall with the request issued before the alias is resolved.
FetchValorantCall_RequestFirst(s) ==
    /\ pc = "idle"
    /\ fn' = "fetch_valorant_league_schedule"
    /\ league_input' = s
    /\ requests' = Append(requests, [serieIds |-> SerieIds(Text(Lower(s)))])
    /\ IF ~Truthy(ResolveAlias(s)) \/ SerieIds(ResolveAlias(s)) = <<>>
       THEN /\ log' = Append(log, "league_not_found")
            /\ result' = Return(None)
            /\ pc' = "done"
            /\ outcomes' = outcomes \cup
                   {Outcome("alias_not_found", Return(None), Append(log, "league_not_found"))}
       ELSE /\ pc' = "awaiting"
            /\ UNCHANGED <<log, result, outcomes>>
    /\ UNCHANGED <<input, http_status>>

\* The call up to `session.post(...)`: alias resolution, id lookup, request.
FetchValorantCall(s) ==
    /\ pc = "idle"
    /\ fn' = "fetch_valorant_league_schedule"
    /\ league_input' = s
    /\ IF ~Truthy(ResolveAlias(s))
       THEN /\ log' = Append(log, "league_not_found")
            /\ result' = Return(None)
            /\ pc' = "done"
            /\ outcomes' = outcomes \cup
                   {Outcome("alias_not_found", Return(None), Append(log, "league_not_found"))}
            /\ UNCHANGED requests
       ELSE IF SerieIds(ResolveAlias(s)) = <<>>
       THEN /\ log' = Append(log, "ids_not_found")
            /\ result' = Return(None)
            /\ pc' = "done"
            /\ outcomes' = outcomes \cup
                   {Outcome("ids_not_found", Return(None), Append(log, "ids_not_found"))}
            /\ UNCHANGED requests
       ELSE /\ requests' = Append(requests, [serieIds |-> SerieIds(ResolveAlias(s))])
            /\ pc' = "awaiting"
            /\ UNCHANGED <<log, result, outcomes>>
    /\ UNCHANGED <<input, http_status>>

\* FetchValorantResponse returning an empty list, not None, on a failed status.
FetchValorantResponse_EmptyListOnFailure(st, body) ==
    /\ pc = "awaiting"
    /\ http_status' = st
    /\ input' = body
    /\ IF st = 200
       THEN /\ result' = ValorantParse(body)
            /\ UNCHANGED <<log, outcomes>>
       ELSE /\ result' = Return(List(<<>>))
            /\ log' = Append(log, "crawl_failed")
            /\ outcomes' = outcomes \cup
                   {Outcome("transport_failure", Return(List(<<>>)), Append(log, "crawl_failed"))}
    /\ pc' = "done"
    /\ UNCHANGED <<fn, league_input, requests>>

\* The response arrives: status st, decoded body `body`.
FetchValorantResponse(st, body) ==
    /\ pc = "awaiting"
    /\ http_status' = st
    /\ input' = body
    /\ IF st = 200
       THEN /\ result' = ValorantParse(body)
            /\ UNCHANGED <<log, outcomes>>
       ELSE /\ result' = Return(None)
            /\ log' = Append(log, "crawl_failed")
            /\ outcomes' = outcomes \cup
                   {Outcome("transport_failure", Return(None), Append(log, "crawl_failed"))}
    /\ pc' = "done"
    /\ UNCHANGED <<fn, league_input, requests>>

\* The caller takes the result; the next call starts from scratch.
Finish ==
    /\ pc = "done"
    /\ pc' = "idle"
    /\ fn' = ""
    /\ league_input' = <<>>
    /\ input' = None
    /\ http_status' = 0
    /\ requests' = <<>>
    /\ log' = <<>>
    /\ result' = NoResult
    /\ UNCHANGED outcomes

Init ==
    /\ pc = "idle"
    /\ fn = ""
    /\ league_input = <<>>
    /\ input = None
    /\ http_status = 0
    /\ requests = <<>>
    /\ log = <<>>
    /\ result = NoResult
    /\ outcomes = {}

---------------------------------------------------------------------------
(* Inputs of the alias specification *)

\* Every way of casing the letters of a.
CaseVariants(a) ==
    { [i \in DOMAIN a |-> IF i \in m THEN UpperChar(a[i]) ELSE LowerChar(a[i])] :
        m \in SUBSET DOMAIN a }

UnknownInputs == { <<>>, << "k", "r" >>, << "L", "C", "K" >>, << "U+D55C", "U+AD6D" >> }

LeagueInputs ==
    UNION { CaseVariants(p[1]) : p \in VALORANT_LEAGUE_ALIAS } \cup UnknownInputs

HttpStatuses == { 200, 404, 500 }

\* A match as OP.GG sends it, with the fields given.
OneMatch(id, at, status) ==
    Dict([ id |-> Str(id), scheduledAt |-> at, status |-> Str(status),
           homeTeam |-> Dict([name |-> Str("T1"), imageUrl |-> Str("t1.png")]),
           awayTeam |-> Dict([name |-> Str("GEN"), imageUrl |-> Str("gen.png")]) ])

Body(q) == Dict([ data |-> Dict([ matchesBySeries |-> List(q) ]) ])

AliasBodies ==
    { Body(<<>>),
      Body(<< OneMatch("m1", Iso(2 * HourMs, "Z"), "not_started"),
              OneMatch("m2", Iso(1 * HourMs, "Z"), "finished") >>) }

Next ==
    \/ \E s \in LeagueInputs : FetchValorantCall(s)
    \/ \E st \in HttpStatuses, body \in AliasBodies : FetchValorantResponse(st, body)
    \/ Finish

Spec == Init /\ [][Next]_vars

---------------------------------------------------------------------------
(* Claims on the alias resolution and the transport outcomes (Spec) *)

InFetch == fn = "fetch_valorant_league_schedule"

\* C1 (as claimed): a call whose input is a case variant of a key of the
\* alias table never reports the league as not found, and requests the
\* series of the standard key that the table stores for that key.
C1_EveryAliasCaseVariantResolves ==
    InFetch =>
        \A p \in VALORANT_LEAGUE_ALIAS :
            league_input \in CaseVariants(p[1]) =>
                /\ "league_not_found" \notin Range(log)
                /\ requests = << [serieIds |-> TableGet(VALORANT_LEAGUE_IDS, p[2])] >>

C7_UnresolvedReturnsNoneWithoutRequest ==
    ( /\ InFetch
      /\ \/ Lower(league_input) \notin TableKeys(VALORANT_LEAGUE_ALIAS)
         \/ TableGet(VALORANT_LEAGUE_IDS,
                     TableGet(VALORANT_LEAGUE_ALIAS, Lower(league_input))) = <<>> )
        => /\ pc = "done"
           /\ requests = <<>>
           /\ result = Return(None)

C7_Witness ==
    /\ InFetch
    /\ Lower(league_input) \notin TableKeys(VALORANT_LEAGUE_ALIAS)
    /\ pc = "done"
    /\ "league_not_found" \in Range(log)

---------------------------------------------------------------------------
(* Team field extractors *)

_TEAM_NAME_KEYS == << "teamCode", "nameAcronym", "shortName", "nameEng", "name" >>

_TEAM_IMG_KEYS == << "imageUrl", "colorImageUrl", "whiteImageUrl", "blackImageUrl" >>

\* str(v) for None, a str and an int
PyStr(v) ==
    CASE IsStr(v) -> v
      [] v.t = "null" -> Str("None")
      [] v.t = "num" -> Str(ToString(v.n))

\* The loop of both extractors: the first key of `keys`, in order, whose
\* value in team is truthy decides; None when there is none.
FirstTruthy(team, keys) ==
    LET hits == { i \in DOMAIN keys : Truthy(Get(team, keys[i])) } IN
        IF hits = {}
        THEN None
        ELSE PyStr(Get(team, keys[CHOOSE i \in hits : \A j \in hits : i <= j]))

\* The loop without its early return: the last truthy key decides.
LastTruthy(team, keys) ==
    LET hits == { i \in DOMAIN keys : Truthy(Get(team, keys[i])) } IN
        IF hits = {}
        THEN None
        ELSE PyStr(Get(team, keys[CHOOSE i \in hits : \A j \in hits : i >= j]))

_find_team_name_LastWins(team) ==
    IF ~IsDict(team) THEN None ELSE LastTruthy(team, _TEAM_NAME_KEYS)

_find_team_name(team) ==
    IF ~IsDict(team) THEN None ELSE FirstTruthy(team, _TEAM_NAME_KEYS)

_find_team_img(team) ==
    IF ~IsDict(team) THEN None ELSE FirstTruthy(team, _TEAM_IMG_KEYS)

\* A call of a function that only computes: it returns (or raises) at once.
CallPure(name, arg, outcome) ==
    /\ pc = "idle"
    /\ fn' = name
    /\ input' = arg
    /\ result' = outcome
    /\ pc' = "done"
    /\ UNCHANGED <<league_input, http_status, requests, log, outcomes>>

FindTeamName(team) == CallPure("_find_team_name", team, Return(_find_team_name(team)))

FindTeamImg(team) == CallPure("_find_team_img", team, Return(_find_team_img(team)))

\* Inputs: what a team key may hold, and the team values built from it.
TeamFieldValues == { Absent, None, Str(""), Str("x"), Str("y") }

TeamDicts(keys) ==
    { Dict(f) : f \in [Range(keys) -> TeamFieldValues] }

NonObjectTeams == { None, Str("T1"), Str(""), Num(0), Num(3), List(<<>>), List(<< Str("T1") >>) }

NextTeam ==
    \/ \E team \in TeamDicts(_TEAM_NAME_KEYS) \cup NonObjectTeams : FindTeamName(team)
    \/ \E team \in TeamDicts(_TEAM_IMG_KEYS) \cup NonObjectTeams : FindTeamImg(team)
    \/ Finish

SpecTeam == Init /\ [][NextTeam]_vars

---------------------------------------------------------------------------
(* _extract_match_basic and parse_lol_month_days *)

\* An int is epoch milliseconds and becomes the UTC ISO text of that
\* instant; anything else becomes str(value), "None" for None.
_normalize_start_date(value) ==
    IF value.t = "num" THEN Iso(value.n, "+00:00") ELSE PyStr(value)

\* team1, team2, team1Img, team2Img of a match dict
ExtractTeams(match_obj) ==
    IF Has(match_obj, "teams") /\ IsList(match_obj.d["teams"])
    THEN LET teams_data == match_obj.d["teams"].items IN
         [ team1 |-> IF Len(teams_data) >= 1 THEN _find_team_name(teams_data[1]) ELSE None,
           team1Img |-> IF Len(teams_data) >= 1 THEN _find_team_img(teams_data[1]) ELSE None,
           team2 |-> IF Len(teams_data) >= 2 THEN _find_team_name(teams_data[2]) ELSE None,
           team2Img |-> IF Len(teams_data) >= 2 THEN _find_team_img(teams_data[2]) ELSE None ]
    ELSE IF Has(match_obj, "homeTeam") \/ Has(match_obj, "awayTeam")
    THEN [ team1 |-> _find_team_name(Get(match_obj, "homeTeam")),
           team2 |-> _find_team_name(Get(match_obj, "awayTeam")),
           team1Img |-> _find_team_img(Get(match_obj, "homeTeam")),
           team2Img |-> _find_team_img(Get(match_obj, "awayTeam")) ]
    ELSE [ team1 |-> PyOr(Get(match_obj, "team1Name"), Get(match_obj, "homeTeamName")),
           team2 |-> PyOr(Get(match_obj, "team2Name"), Get(match_obj, "awayTeamName")),
           team1Img |-> None,
           team2Img |-> None ]

\* The record returned for a match dict (a value that is no dict makes the
\* first .get raise AttributeError: see parse_lol_month_days).
_extract_match_basic(match_obj) ==
    [ matchId |-> PyOr(Get(match_obj, "matchId"), Get(match_obj, "id")),
      startDate |-> _normalize_start_date(
                        PyOr(Get(match_obj, "startDate"), Get(match_obj, "startTime"))),
      status |-> PyOr(Get(match_obj, "status"), Get(match_obj, "matchStatus")),
      team1 |-> ExtractTeams(match_obj).team1,
      team2 |-> ExtractTeams(match_obj).team2,
      team1Img |-> ExtractTeams(match_obj).team1Img,
      team2Img |-> ExtractTeams(match_obj).team2Img,
      score1 |-> PyOr(PyOr(Get(match_obj, "homeScore"), Get(match_obj, "team1Score")),
                      Get(match_obj, "score1")),
      score2 |-> PyOr(PyOr(Get(match_obj, "awayScore"), Get(match_obj, "team2Score")),
                      Get(match_obj, "score2")) ]

\* What the generator hands out: an object, or the exception it raises.
Yielded(v) == [exc |-> "", v |-> v]

Raising(e) == [exc |-> e, v |-> None]

\* `for m in v: yield m` for a list, a str, None and an int (a dict is not
\* drawn in that place): iterating None or an int raises TypeError.
IterYield(v) ==
    CASE v.t = "list" -> [ i \in DOMAIN v.items |-> Yielded(v.items[i]) ]
      [] v.t = "text" -> [ i \in DOMAIN v.chars |-> Yielded(Str(v.chars[i])) ]
      [] v.t \in {"null", "num"} -> << Raising("TypeError") >>

RECURSIVE _yield_match_objs(_), YieldFromEach(_)

\* The objects yielded for node, in order, up to and with a raised exception
_yield_match_objs(node) ==
    IF IsDict(node)
    THEN IF Has(node, "matches")
         THEN IterYield(node.d["matches"])
         ELSE IF Has(node, "matchId")
         THEN << Yielded(node) >>
         ELSE IF Truthy(PyOr(Get(node, "matchList"), Get(node, "matches")))
         THEN IterYield(PyOr(Get(node, "matchList"), Get(node, "matches")))
         ELSE <<>>
    ELSE IF IsList(node)
    THEN YieldFromEach(node.items)
    ELSE <<>>

\* for item in node: yield from _yield_match_objs(item)
YieldFromEach(items) ==
    IF items = <<>>
    THEN <<>>
    ELSE _yield_match_objs(Head(items)) \o YieldFromEach(Tail(items))

\* The least element of a non-empty set of indices.
Least(S) == CHOOSE i \in S : \A j \in S : i <= j

parse_lol_month_days(days_resp) ==
    IF ~Truthy(days_resp) THEN Return(List(<<>>))
    ELSE IF ~IsDict(days_resp) THEN Raise("AttributeError")
    ELSE IF Get(days_resp, "code") # Num(200) THEN Return(List(<<>>))
    ELSE LET objs == _yield_match_objs(Get(days_resp, "content"))
             bad == { i \in DOMAIN objs : objs[i].exc # "" \/ ~IsDict(objs[i].v) }
         IN  IF bad # {}
             THEN Raise(IF objs[Least(bad)].exc # ""
                        THEN objs[Least(bad)].exc
                        ELSE "AttributeError")
             ELSE Return(List([ i \in DOMAIN objs |-> _extract_match_basic(objs[i].v) ]))

---------------------------------------------------------------------------
(* parse_opgg_matches_list *)

\* The first exception that parsing the match dict raises, "" if none
OpggMatchExc(match) ==
    IF ~IsDict(PyOr(Get(match, "homeTeam"), EmptyDict)) THEN "AttributeError"
    ELSE IF ~IsDict(PyOr(Get(match, "awayTeam"), EmptyDict)) THEN "AttributeError"
    ELSE IF ~Hashable(Get(match, "status")) THEN "TypeError"
    ELSE ""

OpggMatch(match) ==
    LET home_team == PyOr(Get(match, "homeTeam"), EmptyDict)
        away_team == PyOr(Get(match, "awayTeam"), EmptyDict)
    IN  [ matchId |-> Get(match, "id"),
          startDate |-> Get(match, "scheduledAt"),
          status |-> status_map(Get(match, "status")),
          team1 |-> PyOr(PyOr(Get(home_team, "acronym"), Get(home_team, "name")), Str("")),
          team2 |-> PyOr(PyOr(Get(away_team, "acronym"), Get(away_team, "name")), Str("")),
          team1Img |-> PyOr(PyOr(PyOr(Get(home_team, "imageUrl"),
                                      Get(home_team, "imageUrlLightMode")),
                                 Get(home_team, "imageUrlDarkMode")), Str("")),
          team2Img |-> PyOr(PyOr(PyOr(Get(away_team, "imageUrl"),
                                      Get(away_team, "imageUrlLightMode")),
                                 Get(away_team, "imageUrlDarkMode")), Str("")),
          score1 |-> Get(match, "homeScore"),
          score2 |-> Get(match, "awayScore") ]

\* The subsequence of the dicts of q: `if not isinstance(match, dict): continue`
RECURSIVE OnlyDicts(_)
OnlyDicts(q) ==
    IF q = <<>> THEN <<>>
    ELSE IF IsDict(Head(q)) THEN << Head(q) >> \o OnlyDicts(Tail(q))
    ELSE OnlyDicts(Tail(q))

parse_opgg_matches_list(opgg_response) ==
    IF ~Truthy(opgg_response) THEN Return(List(<<>>))
    ELSE IF ~IsDict(opgg_response) THEN Raise("AttributeError")
    ELSE IF ~Truthy(Get(opgg_response, "data")) THEN Return(List(<<>>))
    ELSE IF ~IsDict(Get(opgg_response, "data")) THEN Raise("AttributeError")
    ELSE LET matches == PyOr(Get(Get(opgg_response, "data"), "pagedAllMatches"), List(<<>>)) IN
         IF ~IsList(matches) THEN Return(List(<<>>))
         ELSE LET dicts == OnlyDicts(matches.items)
                  bad == { i \in DOMAIN dicts : OpggMatchExc(dicts[i]) # "" }
              IN  IF bad # {}
                  THEN Raise(OpggMatchExc(dicts[Least(bad)]))
                  ELSE Return(List([ i \in DOMAIN dicts |-> OpggMatch(dicts[i]) ]))

ParseLolMonthDays(days_resp) ==
    CallPure("parse_lol_month_days", days_resp, parse_lol_month_days(days_resp))

ParseOpggMatchesList(opgg_response) ==
    CallPure("parse_opgg_matches_list", opgg_response, parse_opgg_matches_list(opgg_response))

---------------------------------------------------------------------------
(* The normalizers on one raw match (SpecNormalize) *)

FullTeam ==
    Dict([ teamCode |-> Str("T1"), name |-> Str("T1 Esports"), acronym |-> Str("T1"),
           imageUrl |-> Str("t1.png") ])

RawTeams == { Absent, None, FullTeam, EmptyDict, Str("T1") }

RawAwayTeams == { FullTeam, None }

RawIds == { Absent, None, Str("m1") }

RawStatuses ==
    { Absent, None, Str(""), Str("not_started"), Str("running"), Str("finished"),
      Str("paused"), Str("BEFORE"), Num(1), List(<<>>) }

\* Naver match objects: the id under matchId or id, the start as epoch
\* milliseconds or as text
LolRawMatches ==
    { Dict(idKey :> id @@ "startDate" :> start @@ "status" :> status
           @@ "matchStatus" :> alt @@ "homeTeam" :> home @@ "awayTeam" :> away) :
        idKey \in {"matchId", "id"}, id \in RawIds,
        start \in { Absent, None, Num(HourMs), Iso(HourMs, "+09:00") },
        status \in RawStatuses, alt \in { Absent, Str("END") },
        home \in RawTeams, away \in RawAwayTeams }

\* OP.GG match objects (LoL and Valorant share the Match fragment)
OpggRawMatches ==
    { Dict([ id |-> id, scheduledAt |-> start, status |-> status,
             homeTeam |-> home, awayTeam |-> away ]) :
        id \in RawIds, start \in { Absent, None, Iso(HourMs, "Z") },
        status \in RawStatuses, home \in RawTeams, away \in RawAwayTeams }

\* The v2 month response: {"code": 200, "content": {"matches": [...]}}
LolResponse(content) == Dict([ code |-> Num(200), content |-> content ])

LolNested(q) == Dict([ matches |-> List(q) ])

OpggResponse(q) == Dict([ data |-> Dict([ pagedAllMatches |-> List(q) ]) ])

NextNormalize ==
    \/ \E raw \in LolRawMatches : ParseLolMonthDays(LolResponse(LolNested(<< raw >>)))
    \/ \E raw \in OpggRawMatches : ParseOpggMatchesList(OpggResponse(<< raw >>))
    \/ \E s \in { K_pacific, << "U+D37C", "U+C2DC", "U+D53D" >> } : FetchValorantCall(s)
    \/ \E raw \in OpggRawMatches : FetchValorantResponse(200, Body(<< raw >>))
    \/ Finish

SpecNormalize == Init /\ [][NextNormalize]_vars

Normalizers ==
    { "parse_lol_month_days", "parse_opgg_matches_list", "fetch_valorant_league_schedule" }

\* A normalizer call on one raw match has finished.
NormalizedOne == pc = "done" /\ fn \in Normalizers /\ IsDict(input)

\* The raw match that the finished call was given.
RawMatch ==
    CASE fn = "parse_lol_month_days" -> input.d["content"].d["matches"].items[1]
      [] fn = "parse_opgg_matches_list" -> input.d["data"].d["pagedAllMatches"].items[1]
      [] fn = "fetch_valorant_league_schedule" ->
             input.d["data"].d["matchesBySeries"].items[1]

\* The value of key k of the raw match, None when the key is missing or null.
RawField(k) == IF RawMatch.d[k] = Absent THEN None ELSE RawMatch.d[k]

Emitted == result.kind = "return" /\ result.val.t = "list" /\ result.val.items # <<>>

Record == result.val.items[1]

\* C3 (as claimed): every record a normalizer emits has a matchId and a
\* start date that were derived from the raw match, and a raw match that has
\* no id or no start time is dropped from the output.
C3_EmittedRecordsHaveIdAndStart ==
    (NormalizedOne /\ result.kind = "return") =>
        /\ Emitted => /\ Record.matchId # None
                      /\ Record.startDate \notin { None, Str("None") }
        /\ ( \/ (RawField("matchId") = None /\ RawField("id") = None)
             \/ ( /\ RawField("startDate") = None
                  /\ RawField("startTime") = None
                  /\ RawField("scheduledAt") = None ) )
               => result.val = List(<<>>)

\* C4 (as claimed): a raw match whose homeTeam (awayTeam) is null, and
\* whose other fields are well-formed, is normalized without an exception
\* to a record whose team name and logo of that side are "".
C4_NullTeamGivesEmptyStrings ==
    ( /\ NormalizedOne
      /\ RawField("status") = Str("running")
      /\ RawField("id") # None \/ RawField("matchId") # None
      /\ RawField("scheduledAt") # None \/ RawField("startDate") # None )
        => /\ ( RawMatch.d["homeTeam"] = None /\ RawMatch.d["awayTeam"] = FullTeam )
                => /\ Emitted
                   /\ Record.team1 = Str("")
                   /\ Record.team1Img = Str("")
           /\ ( RawMatch.d["awayTeam"] = None /\ RawMatch.d["homeTeam"] = FullTeam )
                => /\ Emitted
                   /\ Record.team2 = Str("")
                   /\ Record.team2Img = Str("")

\* The status table of the claim.
C9_Mapped(status) ==
    CASE status = Str("not_started") -> Str("BEFORE")
      [] status = Str("running") -> Str("STARTED")
      [] status = Str("finished") -> Str("END")
      [] OTHER -> status

\* The raw status a normalizer reads: _extract_match_basic falls back to
\* matchStatus when status is missing or empty.
C9_RawStatus ==
    IF /\ fn = "parse_lol_month_days"
       /\ RawField("status") \in { None, Str(""), Num(0), List(<<>>) }
    THEN RawField("matchStatus")
    ELSE RawField("status")

C9_RestWellFormed ==
    /\ RawMatch.d["homeTeam"] \in { Absent, FullTeam, EmptyDict }
    /\ RawMatch.d["awayTeam"] = FullTeam
    /\ IsStr(RawField("scheduledAt")) \/ fn = "parse_opgg_matches_list"

---------------------------------------------------------------------------
(* The flattener on whole responses (SpecFlatten) *)

MaxMatches == 3

MatchIds == << "m1", "m2", "m3", "m4", "m5" >>

IdKeys == { "matchId", "id" }

\* The i-th Naver match object, its id stored under idKey.
LolMatch(i, idKey) ==
    Dict(idKey :> Str(MatchIds[i]) @@ "startDate" :> Num(i * HourMs)
         @@ "status" :> Str("BEFORE") @@ "homeTeam" :> FullTeam @@ "awayTeam" :> FullTeam)

\* The sequences of raw match objects that a response may carry.
RawSequences ==
    UNION { { [ i \in 1..n |-> LolMatch(i, f[i]) ] : f \in [1..n -> IdKeys] } :
              n \in 0..MaxMatches }

\* q as date groups, a new group starting after each position of cuts
Grouped(q, cuts) ==
    LET starts == { c + 1 : c \in cuts } \cup (IF q = <<>> THEN {} ELSE {1})
        start(k) == CHOOSE b \in starts : Cardinality({ c \in starts : c < b }) = k - 1
        end(k) == IF k = Cardinality(starts) THEN Len(q) ELSE start(k + 1) - 1
    IN  List([ k \in 1..Cardinality(starts) |->
                 Dict([ date |-> Str("1970-01-01"),
                        matchList |-> List(SubSeq(q, start(k), end(k))) ]) ])

\* The three encodings of one sequence of raw match objects
Shapes ==
    { [ underlying |-> q, content |-> LolNested(q) ] : q \in RawSequences }
    \cup { [ underlying |-> q, content |-> List(q) ] : q \in RawSequences }
    \cup UNION { { [ underlying |-> q, content |-> Grouped(q, cuts) ] :
                     cuts \in SUBSET (1..(Len(q) - 1)) } : q \in RawSequences }

\* Contents that are malformed or partial
BadLists ==
    { None, Num(1), Text(<<>>), Text(<< "a", "b" >>), List(<< Num(1) >>),
      List(<< None >>), List(<< LolMatch(1, "matchId"), Str("x") >>),
      List(<< LolMatch(1, "matchId"), List(<< LolMatch(2, "matchId") >>) >>) }

MalformedContents ==
    { Absent, None, Num(5), Text(<< "a" >>), EmptyDict }
    \cup { Dict([ matches |-> x ]) : x \in BadLists }
    \cup { Dict([ matchList |-> x ]) : x \in BadLists }
    \cup { Dict([ matchId |-> Str("m1"), matches |-> x ]) : x \in BadLists }
    \cup { List(<< LolMatch(1, "matchId"), x, LolMatch(2, "matchId") >>) : x \in BadLists }
    \cup { List(<< Dict([ matchList |-> x ]), LolMatch(2, "matchId") >>) : x \in BadLists }

NextFlatten ==
    \/ \E sh \in Shapes : ParseLolMonthDays(LolResponse(sh.content))
    \/ \E content \in MalformedContents : ParseLolMonthDays(LolResponse(content))
    \/ \E code \in { None, Num(500) }, sh \in Shapes :
           ParseLolMonthDays(Dict([ code |-> code, content |-> sh.content ]))
    \/ Finish

SpecFlatten == Init /\ [][NextFlatten]_vars

ParsedMonth == pc = "done" /\ fn = "parse_lol_month_days"

\* C5 (as claimed): parse_lol_month_days returns a list, and does not raise,
\* for every response whose code is 200, whatever its content.
C5_FlattenerNeverRaises ==
    (ParsedMonth /\ IsDict(input) /\ input.d["code"] = Num(200))
        => result.kind = "return" /\ IsList(result.val)

\* C8 (as claimed): the nested, the grouped-by-date and the flat encoding
\* of one sequence of raw match objects all yield one record per object, in
\* the order of the sequence, whether the objects carry matchId or id.
C8_ShapesYieldSameMatches ==
    ParsedMonth =>
        \A sh \in Shapes :
            input = LolResponse(sh.content) =>
                /\ result.kind = "return"
                /\ IsList(result.val)
                /\ Len(result.val.items) = Len(sh.underlying)
                /\ \A i \in DOMAIN sh.underlying :
                       result.val.items[i].matchId = Str(MatchIds[i])

---------------------------------------------------------------------------
(* The order of the fetched schedule (SpecSort) *)

MaxClockHours == 2

\* scheduledAt texts: a clock reading with the suffix Z or +09:00
SortTimes ==
    { Iso(h * HourMs, sfx) : h \in 0..MaxClockHours, sfx \in { "Z", "+09:00" } }

\* Responses of up to MaxMatches matches, the i-th with the id MatchIds[i]
SortBodies ==
    UNION { { Body([ i \in 1..n |->
                       Dict([ id |-> Str(MatchIds[i]), scheduledAt |-> at[i],
                              status |-> Str("not_started"),
                              homeTeam |-> FullTeam, awayTeam |-> FullTeam ]) ]) :
                at \in [1..n -> SortTimes \cup { Absent }] } :
              n \in 0..MaxMatches }

NextSort ==
    \/ FetchValorantCall(K_pacific)
    \/ \E body \in SortBodies : FetchValorantResponse(200, body)
    \/ Finish

SpecSort == Init /\ [][NextSort]_vars

\* The place of the match with the id `id` in the provider's response.
ProviderIndex(id) ==
    CHOOSE i \in DOMAIN input.d["data"].d["matchesBySeries"].items :
        input.d["data"].d["matchesBySeries"].items[i].d["id"] = id

\* C6 (as claimed): a fetched schedule is in ascending order of start time,
\* and matches that start at the same time keep the provider's order.
\* (Every startDate is KST text, so the readings compare as the instants.)
C6_SortedByStartTimeStable ==
    (pc = "done" /\ InFetch /\ http_status = 200 /\ Emitted) =>
        \A i, j \in DOMAIN result.val.items :
            i < j =>
                /\ result.val.items[i].startDate.ms <= result.val.items[j].startDate.ms
                /\ result.val.items[i].startDate.ms = result.val.items[j].startDate.ms
                     => ProviderIndex(result.val.items[i].matchId)
                          < ProviderIndex(result.val.items[j].matchId)

---------------------------------------------------------------------------
(* The scores of a Naver match (SpecScore) *)

\* What a score key of a raw match may hold
ScoreValues == { Absent, None, Num(0), Num(2) }

HomeScoreKeys == << "homeScore", "team1Score", "score1" >>

AwayScoreKeys == << "awayScore", "team2Score", "score2" >>

\* Naver match objects that differ in their six score fields
ScoreMatches ==
    { Dict([ matchId |-> Str("m1"), startDate |-> Num(HourMs), status |-> Str("RESULT"),
             homeScore |-> h1, team1Score |-> h2, score1 |-> h3,
             awayScore |-> a1, team2Score |-> a2, score2 |-> a3 ]) :
        h1 \in ScoreValues, h2 \in ScoreValues, h3 \in ScoreValues,
        a1 \in ScoreValues, a2 \in ScoreValues, a3 \in ScoreValues }

ExtractMatchBasic(match_obj) ==
    CallPure("_extract_match_basic", match_obj, Return(_extract_match_basic(match_obj)))

NextScore ==
    \/ \E match_obj \in ScoreMatches : ExtractMatchBasic(match_obj)
    \/ Finish

SpecScore == Init /\ [][NextScore]_vars

\* The score keys of one side that hold a value in the raw match
PresentScores(keys) == { i \in DOMAIN keys : input.d[keys[i]] \notin { Absent, None } }

\* The emitted score of a side is null only when no score key of the side
\* holds a value, and is 0 when the only key that holds one holds 0.
ScoreKept(keys, score) ==
    /\ score = None => PresentScores(keys) = {}
    /\ \A i \in DOMAIN keys :
           (PresentScores(keys) = {i} /\ input.d[keys[i]] = Num(0)) => score = Num(0)

\* C11 (as claimed): in a record of _extract_match_basic the score of a side
\* is null only when none of the side's score fields (homeScore, team1Score,
\* score1; awayScore, team2Score, score2) holds a value in the raw match, and
\* a raw match whose only score field of a side holds 0 yields the score 0.
C11_NullScoreDistinctFromZero ==
    (pc = "done" /\ fn = "_extract_match_basic") =>
        /\ ScoreKept(HomeScoreKeys, result.val.score1)
        /\ ScoreKept(AwayScoreKeys, result.val.score2)

===========================================================================
